---- MODULE Spec2Model ----
(***************************************************************************)
(* Model of scripts/generate_awesome_list.py (AwesomeListGenerator).       *)
(*                                                                         *)
(* Text values are sequences of one-character strings, so that lower(),    *)
(* replace(), split() and lexicographic comparison are computed and not    *)
(* assumed.  A Python dict is a sequence of [name, data] pairs with unique *)
(* names: dicts iterate in insertion order and json keeps that order.      *)
(***************************************************************************)
EXTENDS Integers, Sequences, FiniteSets, TLC

\* ------------------------------------------------------------------ bounds
MaxRuns == 2
MaxFetch == 2
MaxStars == 1
MaxLimit == 1
MaxLabelLen == 2
MaxEntries == 4

\* -------------------------------------------------------------- text values
\* A key missing from a dict, and a JSON null (Python None).
Absent == <<"<absent>">>
None == <<"<None>">>
Empty == <<>>

\* The characters the model uses, in ascending code point order.
CharOrder ==
  <<" ", "&", "-", "/", "A", "B", "O", "P", "U", "a", "b", "e", "h", "k", "n", "o", "p", "r", "t", "u", "w">>

Code(c) == CHOOSE i \in DOMAIN CharOrder : CharOrder[i] = c

\* str.lower() on one character.
LowerChar(c) ==
  CASE c = "A" -> "a"
    [] c = "B" -> "b"
    [] c = "O" -> "o"
    [] c = "P" -> "p"
    [] c = "U" -> "u"
    [] OTHER -> c

lower(s) == [i \in DOMAIN s |-> LowerChar(s[i])]

\* str.replace(old, new) for a one-character old and a text new.
RECURSIVE replace(_, _, _)
replace(s, old, new) ==
  IF s = <<>> THEN <<>>
  ELSE (IF Head(s) = old THEN new ELSE <<Head(s)>>) \o replace(Tail(s), old, new)

\* Python's < on str: lexicographic by code point, a proper prefix is smaller.
RECURSIVE StrLess(_, _)
StrLess(s, t) ==
  IF t = <<>> THEN FALSE
  ELSE IF s = <<>> THEN TRUE
  ELSE IF Head(s) = Head(t) THEN StrLess(Tail(s), Tail(t))
  ELSE Code(Head(s)) < Code(Head(t))

\* Python truthiness of an optional text: None and "" are falsy.
Truthy(x) == x # None /\ x # Empty

Other == <<"O", "t", "h", "e", "r">>
Unknown == <<"U", "n", "k", "n", "o", "w", "n">>
NoDescriptionProvided == <<"No description provided">>
InterestingRepository == <<"Interesting repository">>

\* dict.get(key, default) on a fetched item's field.
get(value, default) == IF value = Absent THEN default ELSE value

\* ------------------------------------------------------------ dict as pairs
Keys(d) == {d[i].name : i \in DOMAIN d}

IndexOf(d, k) == CHOOSE i \in DOMAIN d : d[i].name = k

Lookup(d, k) == d[IndexOf(d, k)].data

\* d[k] = v: an existing key keeps its position, a new key is appended.
SetItem(d, k, v) ==
  IF k \in Keys(d) THEN [d EXCEPT ![IndexOf(d, k)].data = v]
  ELSE Append(d, [name |-> k, data |-> v])

UniqueNames(d) == \A i, j \in DOMAIN d : d[i].name = d[j].name => i = j

\* str.split(sep) for a one-character separator.
RECURSIVE split(_, _)
split(s, sep) ==
  IF s = <<>> THEN <<Empty>>
  ELSE IF Head(s) = sep THEN <<Empty>> \o split(Tail(s), sep)
  ELSE [split(Tail(s), sep) EXCEPT ![1] = <<Head(s)>> \o @]

Reverse(s) == [i \in DOMAIN s |-> s[Len(s) + 1 - i]]

\* ------------------------------------------------------------ fetched items
Names == {<<"o", "/", "a">>, <<"p", "/", "b">>}

html_url(full_name) == <<"https://github.com/">> \o full_name

StarVals == 0 .. MaxStars

Python == <<"P">>

\* A starred item as the list API returns it.  topics only feed the prompt.
Item(n, d, l, s) ==
  [full_name |-> n, description |-> d, language |-> l, stargazers_count |-> s,
   html_url |-> html_url(n)]

\* Items of the reconciliation check: described repositories with a language.
Repos == {Item(n, <<"about">>, Python, s) : n \in Names, s \in StarVals}

\* Items of the runs: a repository has no star or it has one.
RunRepos == {Item(n, <<"about">>, Python, s) : n \in Names, s \in {0, 1}}

\* Items of the classifier check: every shape of the two optional fields.
OptionalTexts(t) == {Absent, None, Empty, t}

ClassifierRepos ==
  {Item(n, d, l, s) : n \in Names, d \in OptionalTexts(<<"about">>),
                      l \in OptionalTexts(Python), s \in StarVals}

\* ------------------------------------------------- the classification reply
\* What the remote call and the decoding of its text come to:
\*   raise      messages.create raises, or the message has no content
\*   notjson    json.loads raises
\*   nonobject  the text is JSON but not an object: result["category"] raises
\*   object     a JSON object, whose two fields may be missing
Reply(k, c, d) == [kind |-> k, category |-> c, description |-> d]

Tools == <<"A", "&", "B">>

GoodReply == Reply("object", Tools, <<"summary">>)

Replies ==
  {Reply(k, Absent, Absent) : k \in {"raise", "notjson", "nonobject"}}
    \cup {Reply("object", c, d) : c \in {Absent, Tools}, d \in {Absent, <<"summary">>}}

\* The replies of the reconciliation check; the runs are explored with a
\* classifier that answers.
RunReplies == {Reply("raise", Absent, Absent), GoodReply}

\* The try block reaches its return statement.
Parsed(reply) ==
  /\ reply.kind = "object"
  /\ reply.category # Absent
  /\ reply.description # Absent

categorize_with_llm(repo, reply, utcnow) ==
  IF Parsed(reply)
  THEN [category |-> reply.category,
        description |-> reply.description,
        url |-> repo.html_url,
        stars |-> repo.stargazers_count,
        language |-> get(repo.language, Unknown),
        processed_at |-> utcnow]
  ELSE [category |-> IF Truthy(get(repo.language, Unknown))
                     THEN get(repo.language, Unknown) ELSE Other,
        description |-> IF Truthy(get(repo.description, NoDescriptionProvided))
                        THEN get(repo.description, NoDescriptionProvided)
                        ELSE InterestingRepository,
        url |-> repo.html_url,
        stars |-> repo.stargazers_count,
        language |-> get(repo.language, Unknown),
        processed_at |-> utcnow]

\* ---------------------------------------------------------------- the limit
\* --limit N: absent (None) or an integer.
NoLimit == [given |-> FALSE, n |-> 0]

Limit(n) == [given |-> TRUE, n |-> n]

Limits == {NoLimit} \cup {Limit(n) : n \in -1 .. MaxLimit}

\* The runs are started without --limit or with the largest limit.
RunLimits == {NoLimit, Limit(MaxLimit)}

\* Python truthiness of self.limit: None and 0 are falsy.
LimitSet(l) == l.given /\ l.n # 0

LimitReachedOffByOne(dry, l, done) == dry /\ LimitSet(l) /\ done > l.n

LimitReachedAnyMode(dry, l, done) == LimitSet(l) /\ done >= l.n

\* "if self.dry_run and self.limit and processed_new >= self.limit"
LimitReached(dry, l, done) == dry /\ LimitSet(l) /\ done >= l.n

InCacheNever(d, k) == FALSE

\* "if repo_full_name in cache"
InCache(d, k) == k \in Keys(d)

RefreshEntryClobbers(entry, repo) ==
  [entry EXCEPT !.stars = repo.stargazers_count,
                !.description = get(repo.description, NoDescriptionProvided)]

\* "cache[repo_full_name]["stars"] = repo["stargazers_count"]"
RefreshEntry(entry, repo) == [entry EXCEPT !.stars = repo.stargazers_count]

\* ------------------------------------------------------------- the renderer
\* "Organize by category": a dict from category to the list of its repos, the
\* categories in first-seen order and each list in the cache's order.
RECURSIVE organize(_, _)
organize(items, categories) ==
  IF items = <<>> THEN categories
  ELSE LET category == Head(items).data.category
           row == [name |-> Head(items).name,
                   url |-> Head(items).data.url,
                   description |-> Head(items).data.description,
                   stars |-> Head(items).data.stars,
                   language |-> Head(items).data.language]
           sofar == IF category \in Keys(categories)
                    THEN Lookup(categories, category) ELSE <<>>
       IN organize(Tail(items), SetItem(categories, category, Append(sofar, row)))

\* One step of a stable ascending insertion: x goes after every element that
\* is not greater than it.
InsertLabel(done, x) ==
  LET k == Cardinality({i \in DOMAIN done : ~StrLess(x, done[i])})
  IN SubSeq(done, 1, k) \o <<x>> \o SubSeq(done, k + 1, Len(done))

\* sorted(categories.keys())
RECURSIVE sorted(_)
sorted(labels) ==
  IF labels = <<>> THEN <<>>
  ELSE InsertLabel(sorted(SubSeq(labels, 1, Len(labels) - 1)), labels[Len(labels)])

InsertByStars(done, x) ==
  LET k == Cardinality({i \in DOMAIN done : done[i].stars <= x.stars})
  IN SubSeq(done, 1, k) \o <<x>> \o SubSeq(done, k + 1, Len(done))

\* The stable ascending sort by stars that list.sort runs underneath.
RECURSIVE AscendingByStars(_)
AscendingByStars(rows) ==
  IF rows = <<>> THEN <<>>
  ELSE InsertByStars(AscendingByStars(SubSeq(rows, 1, Len(rows) - 1)), rows[Len(rows)])

sort_by_stars_unstable(rows) == Reverse(AscendingByStars(rows))

\* list.sort(key=stars, reverse=True): the list is reversed, sorted stably in
\* ascending order and reversed again, which keeps equal keys in their order.
sort_by_stars(rows) == Reverse(AscendingByStars(Reverse(rows)))

anchor_keeps_ampersand(category) ==
  replace(replace(lower(category), " ", <<"-">>), "/", <<>>)

\* category.lower().replace(" ", "-").replace("/", "").replace("&", "")
anchor(category) ==
  replace(replace(replace(lower(category), " ", <<"-">>), "/", <<>>), "&", <<>>)

\* "- [{category}](#user-content-{anchor}) ({len(categories[category])})"
contents_line(categories, category) ==
  [category |-> category,
   prefix |-> "#user-content-",
   anchor |-> anchor(category),
   count |-> Len(Lookup(categories, category))]

\* "- **[{repo_name}]({url})** - {description}{language} {stars}"
repo_line(row) ==
  [repo_name |-> split(row.name, "/")[2],
   url |-> row.url,
   description |-> row.description,
   language |-> IF Truthy(row.language) THEN row.language ELSE Empty,
   stars |-> IF row.stars > 0 THEN <<row.stars>> ELSE <<>>]

section(categories, category) ==
  [category |-> category,
   lines |-> [i \in DOMAIN Lookup(categories, category) |->
                repo_line(sort_by_stars(Lookup(categories, category))[i])]]

NoFile == [kind |-> "nofile"]

\* The document generate_readme writes.
generate_readme(d, utcnow) ==
  LET categories == organize(d, <<>>)
      sorted_categories == sorted([i \in DOMAIN categories |-> categories[i].name])
  IN [kind |-> "readme",
      updated |-> utcnow,
      total |-> Len(d),
      contents |-> [i \in DOMAIN sorted_categories |->
                      contents_line(categories, sorted_categories[i])],
      sections |-> [i \in DOMAIN sorted_categories |->
                      section(categories, sorted_categories[i])]]

load_cache_forgets(file) == <<>>

\* load_cache: the stored mapping, {} when there is no file (an empty mapping
\* and a missing file are the same to every reader).
load_cache(file) == file

save_cache_always(file, d, dry) == [content |-> d, writes |-> 1]

\* save_cache: the file after the call, and the writes it made.
save_cache(file, d, dry) ==
  IF dry THEN [content |-> file, writes |-> 0] ELSE [content |-> d, writes |-> 1]

exit_never(status) == FALSE

\* "if response.status_code != 200: ... sys.exit(1)"
exit_on_status(status) == status # 200

\* ------------------------------------------------------------------- state
VARIABLES
  cacheFile,      \* .cache on disk: the persisted mapping
  readmeFile,     \* README.md on disk
  previewFile,    \* README.dry-run.md on disk
  pc,             \* where the run is: idle, load, fetch, process, save, render, done
  dry_run,        \* self.dry_run
  limit,          \* self.limit
  cache,          \* the in-memory mapping of run()
  stars,          \* the items fetched so far
  page,           \* fetch_github_stars: the next page to ask for, 0 outside it
  idx,            \* process_new_stars: the position of the for loop
  new_count,
  updated_count,
  processed_new,
  summary,        \* what process_new_stars prints when its loop ends
  exit_code,      \* the exit status of the finished run
  now,            \* datetime.utcnow(), one tick per run
  runs,           \* the runs started so far
  start,          \* history: the three files as they were when the run started
  classified,     \* history: the identifiers handed to the classifier in this run
  cacheReads,     \* history: reads of .cache in this run
  cacheWrites,    \* history: writes of .cache in this run
  bad_status,     \* history: a page request of this run answered with a non-200 status
  before,         \* history: the mapping process_new_stars was called with
  first,          \* history: the mapping the first of two passes returned
  repo,           \* classifier check: the item
  reply,          \* classifier check: what the remote call comes to
  result          \* classifier check: what categorize_with_llm returned

files == <<cacheFile, readmeFile, previewFile>>

locals == <<cache, stars, page, idx, new_count, updated_count, processed_new, summary>>

counters == <<new_count, updated_count, processed_new>>

history == <<start, classified, cacheReads, cacheWrites, bad_status, before, first>>

classifier == <<repo, reply, result>>

vars == <<files, pc, dry_run, limit, locals, exit_code, now, runs, history, classifier>>

NoSummary == [kind |-> "none"]

NoResult == [category |-> Absent]

Running == pc \in {"load", "fetch", "process", "save", "render"}

\* The memory of a process that is not running.
NoLocals ==
  /\ cache = <<>>
  /\ stars = <<>>
  /\ page = 0
  /\ idx = 0
  /\ new_count = 0
  /\ updated_count = 0
  /\ processed_new = 0
  /\ summary = NoSummary

NoLocalsNext ==
  /\ cache' = <<>>
  /\ stars' = <<>>
  /\ page' = 0
  /\ idx' = 0
  /\ new_count' = 0
  /\ updated_count' = 0
  /\ processed_new' = 0
  /\ summary' = NoSummary

NoClassifier ==
  /\ repo = Item(Empty, Absent, Absent, 0)
  /\ reply = Reply("raise", Absent, Absent)
  /\ result = NoResult

NoHistory ==
  /\ start = <<<<>>, NoFile, NoFile>>
  /\ classified = <<>>
  /\ cacheReads = 0
  /\ cacheWrites = 0
  /\ bad_status = FALSE
  /\ before = <<>>
  /\ first = <<>>

\* Nothing on disk, no run started.
Init ==
  /\ cacheFile = <<>>
  /\ readmeFile = NoFile
  /\ previewFile = NoFile
  /\ pc = "idle"
  /\ dry_run = FALSE
  /\ limit = NoLimit
  /\ NoLocals
  /\ exit_code = 0
  /\ now = 0
  /\ runs = 0
  /\ NoHistory
  /\ NoClassifier

\* ----------------------------------------------------------------- the run
\* __main__ and __init__: the flags are parsed, the generator is built.
Start(d, l) ==
  /\ pc \in {"idle", "done"}
  /\ runs < MaxRuns
  /\ dry_run' = d
  /\ limit' = l
  /\ pc' = "load"
  /\ NoLocalsNext
  /\ exit_code' = 0
  /\ now' = now + 1
  /\ runs' = runs + 1
  /\ start' = files
  /\ classified' = <<>>
  /\ cacheReads' = 0
  /\ cacheWrites' = 0
  /\ bad_status' = FALSE
  /\ before' = <<>>
  /\ UNCHANGED <<files, first, classifier>>

\* run(): "cache = self.load_cache()".  load_categories only feeds the prompt.
LoadCache ==
  /\ pc = "load"
  /\ cache' = load_cache(cacheFile)
  /\ cacheReads' = cacheReads + 1
  /\ page' = 1
  /\ pc' = "fetch"
  /\ UNCHANGED <<files, dry_run, limit, stars, idx, counters, summary, exit_code, now, runs,
                 start, classified, cacheWrites, bad_status, before, first, classifier>>

\* The pages the list API may answer with when n items are already fetched.
Pages(n) == UNION {[1 .. k -> RunRepos] : k \in 0 .. (MaxFetch - n)}

Responses(n) ==
  {[status |-> 500, items |-> <<>>]} \cup {[status |-> 200, items |-> p] : p \in Pages(n)}

\* fetch_github_stars: one turn of its while loop.  page is local to it and
\* gone when it returns.  sys.exit(1) ends the run and its memory; page stays,
\* as the number of the page that failed.
FetchPage ==
  /\ pc = "fetch"
  /\ \E response \in Responses(Len(stars)) :
       /\ bad_status' = (bad_status \/ response.status # 200)
       /\ IF exit_on_status(response.status)
          THEN /\ pc' = "done"
               /\ exit_code' = 1
               /\ cache' = <<>>
               /\ stars' = <<>>
               /\ UNCHANGED <<page, idx, before>>
          ELSE IF response.items = <<>>
          THEN /\ pc' = "process"
               /\ idx' = 1
               /\ before' = cache
               /\ page' = 0
               /\ UNCHANGED <<cache, stars, exit_code>>
          ELSE /\ stars' = stars \o response.items
               /\ page' = page + 1
               /\ UNCHANGED <<cache, pc, idx, before, exit_code>>
  /\ UNCHANGED <<files, dry_run, limit, counters, summary, now, runs,
                 start, classified, cacheReads, cacheWrites, first, classifier>>

\* process_new_stars: one turn of its for loop.
ProcessItem(answers) ==
  /\ pc = "process"
  /\ idx <= Len(stars)
  /\ idx' = idx + 1
  /\ IF InCache(cache, stars[idx].full_name)
     THEN /\ IF Lookup(cache, stars[idx].full_name).stars # stars[idx].stargazers_count
             THEN /\ cache' = SetItem(cache, stars[idx].full_name,
                                      RefreshEntry(Lookup(cache, stars[idx].full_name),
                                                   stars[idx]))
                  /\ updated_count' = updated_count + 1
             ELSE UNCHANGED <<cache, updated_count>>
          /\ UNCHANGED <<new_count, processed_new, classified>>
     ELSE IF LimitReached(dry_run, limit, processed_new)
     THEN /\ new_count' = new_count + 1
          /\ UNCHANGED <<cache, updated_count, processed_new, classified>>
     ELSE /\ \E answer \in answers :
               cache' = SetItem(cache, stars[idx].full_name,
                                categorize_with_llm(stars[idx], answer, now))
          /\ new_count' = new_count + 1
          /\ processed_new' = processed_new + 1
          /\ classified' = Append(classified, stars[idx].full_name)
          /\ UNCHANGED updated_count
  /\ UNCHANGED <<files, pc, dry_run, limit, stars, page, summary, exit_code, now, runs,
                 start, cacheReads, cacheWrites, bad_status, before, first, classifier>>

\* process_new_stars: the loop is over, the summary is printed, cache returned.
ProcessDone ==
  /\ pc = "process"
  /\ idx > Len(stars)
  /\ summary' = IF dry_run /\ LimitSet(limit) /\ new_count > processed_new
                THEN [kind |-> "limited", processed |-> processed_new, new |-> new_count,
                      skipped |-> new_count - processed_new]
                ELSE [kind |-> "all", new |-> new_count, updated |-> updated_count]
  /\ pc' = "save"
  /\ UNCHANGED <<files, dry_run, limit, cache, stars, page, idx, counters, exit_code, now,
                 runs, history, classifier>>

\* run(): "self.save_cache(cache)".
SaveCache ==
  /\ pc = "save"
  /\ cacheFile' = save_cache(cacheFile, cache, dry_run).content
  /\ cacheWrites' = cacheWrites + save_cache(cacheFile, cache, dry_run).writes
  /\ pc' = "render"
  /\ UNCHANGED <<readmeFile, previewFile, dry_run, limit, locals, exit_code, now, runs,
                 start, classified, cacheReads, bad_status, before, first, classifier>>

\* run(): "self.generate_readme(cache)", written to self.readme_file, and the
\* run ends with status 0.
GenerateReadme ==
  /\ pc = "render"
  /\ IF dry_run
     THEN /\ previewFile' = generate_readme(cache, now)
          /\ UNCHANGED readmeFile
     ELSE /\ readmeFile' = generate_readme(cache, now)
          /\ UNCHANGED previewFile
  /\ pc' = "done"
  /\ exit_code' = 0
  /\ UNCHANGED <<cacheFile, dry_run, limit, locals, now, runs, history, classifier>>

\* KeyboardInterrupt between two steps, or any other exception that reaches
\* __main__: the run ends with status 1 and its memory is gone.
Interrupt ==
  /\ Running
  /\ pc' = "done"
  /\ exit_code' = 1
  /\ NoLocalsNext
  /\ UNCHANGED <<files, dry_run, limit, now, runs, history, classifier>>

Next ==
  \/ \E d \in BOOLEAN, l \in RunLimits : Start(d, l)
  \/ LoadCache
  \/ FetchPage
  \/ ProcessItem({GoodReply})
  \/ ProcessDone
  \/ SaveCache
  \/ GenerateReadme
  \/ Interrupt

Spec == Init /\ [][Next]_vars

\* ------------------------------------------------- one reconciliation, twice
\* What an earlier run may have stored under a name.
StoredPairs ==
  {[name |-> r.full_name, data |-> categorize_with_llm(r, a, 0)] : r \in Repos, a \in RunReplies}

StoredCaches ==
  {d \in UNION {[1 .. k -> StoredPairs] : k \in 0 .. Cardinality(Names)} : UniqueNames(d)}

FetchLists == UNION {[1 .. k -> Repos] : k \in 0 .. MaxFetch}

\* process_new_stars is entered with a stored mapping and a fetched list.
InitReconcile ==
  /\ cache \in StoredCaches
  /\ stars \in FetchLists
  /\ dry_run \in BOOLEAN
  /\ limit \in Limits
  /\ cacheFile = cache
  /\ readmeFile = NoFile
  /\ previewFile = NoFile
  /\ pc = "process"
  /\ page = 0
  /\ idx = 1
  /\ new_count = 0
  /\ updated_count = 0
  /\ processed_new = 0
  /\ summary = NoSummary
  /\ exit_code = 0
  /\ now = 1
  /\ runs = 1
  /\ start = <<cache, NoFile, NoFile>>
  /\ classified = <<>>
  /\ cacheReads = 1
  /\ cacheWrites = 0
  /\ bad_status = FALSE
  /\ before = cache
  /\ first = <<>>
  /\ NoClassifier

\* process_new_stars is called a second time, later, with the mapping it
\* returned and the same fetched list.
Again ==
  /\ pc = "save"
  /\ runs = 1
  /\ runs' = 2
  /\ now' = now + 1
  /\ first' = cache
  /\ before' = cache
  /\ classified' = <<>>
  /\ pc' = "process"
  /\ idx' = 1
  /\ new_count' = 0
  /\ updated_count' = 0
  /\ processed_new' = 0
  /\ summary' = NoSummary
  /\ UNCHANGED <<files, dry_run, limit, cache, stars, page, exit_code, start, cacheReads,
                 cacheWrites, bad_status, classifier>>

NextReconcile ==
  \/ ProcessItem(RunReplies)
  \/ ProcessDone
  \/ Again

SpecReconcile == InitReconcile /\ [][NextReconcile]_vars

\* ------------------------------------------------------ one classification
InitClassify ==
  /\ repo \in ClassifierRepos
  /\ reply \in Replies
  /\ result = NoResult
  /\ cacheFile = <<>>
  /\ readmeFile = NoFile
  /\ previewFile = NoFile
  /\ pc = "idle"
  /\ dry_run = FALSE
  /\ limit = NoLimit
  /\ NoLocals
  /\ exit_code = 0
  /\ now = 1
  /\ runs = 0
  /\ NoHistory

\* categorize_with_llm is called and returns.
Classify ==
  /\ result = NoResult
  /\ result' = categorize_with_llm(repo, reply, now)
  /\ UNCHANGED <<files, pc, dry_run, limit, locals, exit_code, now, runs, history, repo, reply>>

SpecClassify == InitClassify /\ [][Classify]_vars

\* ------------------------------------------------------------ one rendering
RenderName(i) == <<"o", "/", CharOrder[4 + i]>>

Stored(i, category, count, language) ==
  [name |-> RenderName(i),
   data |-> [category |-> category, description |-> <<"summary">>,
             url |-> html_url(RenderName(i)), stars |-> count, language |-> language,
             processed_at |-> 0]]

\* Mappings of k repositories in two categories.
RECURSIVE Ranked(_)
Ranked(k) ==
  IF k = 0 THEN {<<>>}
  ELSE {Append(d, Stored(k, category, count, Python)) :
          d \in Ranked(k - 1), category \in {<<"b">>, <<"A">>}, count \in {1, 5, 20}}

RankedCaches == UNION {Ranked(k) : k \in 0 .. MaxEntries}

LabelChars == {"A", "b", " ", "/", "&"}

Labels == UNION {[1 .. k -> LabelChars] : k \in 1 .. MaxLabelLen}

\* Mappings of one or two repositories under any label.
LabelledCaches ==
  {<<Stored(1, c, 0, None)>> : c \in Labels}
    \cup {<<Stored(1, c, 0, None), Stored(2, d, 0, None)>> : c \in Labels, d \in Labels}

InitRender ==
  /\ cache \in RankedCaches \cup LabelledCaches
  /\ dry_run \in BOOLEAN
  /\ pc = "render"
  /\ cacheFile = cache
  /\ readmeFile = NoFile
  /\ previewFile = NoFile
  /\ limit = NoLimit
  /\ stars = <<>>
  /\ page = 0
  /\ idx = 1
  /\ new_count = 0
  /\ updated_count = 0
  /\ processed_new = 0
  /\ summary = [kind |-> "all", new |-> 0, updated |-> 0]
  /\ exit_code = 0
  /\ now = 1
  /\ runs = 1
  /\ start = <<cache, NoFile, NoFile>>
  /\ classified = <<>>
  /\ cacheReads = 1
  /\ cacheWrites = 0
  /\ bad_status = FALSE
  /\ before = cache
  /\ first = <<>>
  /\ NoClassifier

SpecRender == InitRender /\ [][GenerateReadme]_vars

\* ------------------------------------------------------------------ claims
UniqueFetch == \A i, j \in DOMAIN stars : stars[i].full_name = stars[j].full_name => i = j

Fetched(k) == \E i \in DOMAIN stars : stars[i].full_name = k

\* The count the fetch reports for k, at its last occurrence.
FetchedCount(k) ==
  stars[CHOOSE i \in DOMAIN stars :
          /\ stars[i].full_name = k
          /\ \A j \in DOMAIN stars : stars[j].full_name = k => j <= i].stargazers_count

NotCachedBefore(r) == r.full_name \notin Keys(before)

\* The fetched items that were absent from the mapping, in fetch order.
NewItems == SelectSeq(stars, NotCachedBefore)

Min(a, b) == IF a <= b THEN a ELSE b

\* C1: with no ceiling and a fetched list of unique identifiers, a second
\* reconciliation of the same list over the mapping the first one returned
\* returns that mapping again, every field of every entry equal (processed_at
\* included), and hands nothing to the classifier.
C1_Idempotent ==
  (pc = "save" /\ runs = 2 /\ limit = NoLimit /\ UniqueFetch)
    => (cache = first /\ classified = <<>>)

\* The first pass added an entry and refreshed another, the second is over.
C1_Witness ==
  /\ pc = "save"
  /\ runs = 2
  /\ limit = NoLimit
  /\ UniqueFetch
  /\ Len(first) > Len(start[1])
  /\ \E k \in Keys(start[1]) : Lookup(first, k).stars # Lookup(start[1], k).stars

\* C2: in every run, normal, preview or aborted, the classifier is called only
\* for identifiers absent from the mapping persisted when the run started, at
\* most once for each of them however often it is fetched, and an identifier
\* that is persisted stays persisted.
C2_AtMostOnce ==
  /\ \A i \in DOMAIN classified : classified[i] \notin Keys(start[1])
  /\ \A i, j \in DOMAIN classified : classified[i] = classified[j] => i = j
  /\ Keys(start[1]) \subseteq Keys(cacheFile)

\* A second run fetched a persisted identifier and a new one, and classified
\* only the new one.
C2_Witness ==
  /\ runs = 2
  /\ pc = "save"
  /\ Len(classified) = 1
  /\ \E i \in DOMAIN stars : stars[i].full_name \in Keys(start[1])

\* C3: when process_new_stars returns, every entry that was in the mapping is
\* still there with its category, description, url, language and processed_at
\* untouched; its stars are the fetched count if it was fetched and the stored
\* ones if not; and with unique identifiers updated_count is the number of
\* entries whose stored and fetched counts differed.
C3_RefreshFrame ==
  pc = "save" =>
    /\ \A k \in Keys(before) :
         /\ k \in Keys(cache)
         /\ Lookup(cache, k).category = Lookup(before, k).category
         /\ Lookup(cache, k).description = Lookup(before, k).description
         /\ Lookup(cache, k).url = Lookup(before, k).url
         /\ Lookup(cache, k).language = Lookup(before, k).language
         /\ Lookup(cache, k).processed_at = Lookup(before, k).processed_at
         /\ Lookup(cache, k).stars =
              IF Fetched(k) THEN FetchedCount(k) ELSE Lookup(before, k).stars
    /\ UniqueFetch =>
         updated_count =
           Cardinality({k \in Keys(before) :
                          Fetched(k) /\ Lookup(before, k).stars # FetchedCount(k)})

\* Two stored entries were fetched, one with a new count and one with the old.
C3_Witness ==
  /\ pc = "save"
  /\ updated_count = 1
  /\ \E k \in Keys(before) : Fetched(k) /\ Lookup(before, k).stars # Lookup(cache, k).stars
  /\ \E k \in Keys(before) : Fetched(k) /\ Lookup(before, k).stars = FetchedCount(k)

\* C4: in preview mode with a positive ceiling c and k fetched identifiers
\* absent from the mapping, the first min(k, c) of them in fetch order are
\* classified and added, the others are counted as new and stay absent, and
\* the skipped count new_count - processed_new is k - min(k, c).
C4_Ceiling ==
  (pc = "save" /\ dry_run /\ limit.given /\ limit.n > 0 /\ UniqueFetch) =>
    /\ classified =
         [i \in 1 .. Min(Len(NewItems), limit.n) |-> NewItems[i].full_name]
    /\ Keys(cache) = Keys(before) \cup {classified[i] : i \in DOMAIN classified}
    /\ \A i \in DOMAIN NewItems :
         i > Min(Len(NewItems), limit.n) => NewItems[i].full_name \notin Keys(cache)
    /\ new_count = Len(NewItems)
    /\ new_count - processed_new = Len(NewItems) - Min(Len(NewItems), limit.n)
    /\ Len(NewItems) > limit.n =>
         /\ summary.kind = "limited"
         /\ summary.skipped = Len(NewItems) - limit.n

\* Two new identifiers under a ceiling of one: one classified, one skipped.
C4_Witness ==
  /\ pc = "save"
  /\ dry_run
  /\ limit = Limit(1)
  /\ UniqueFetch
  /\ Len(NewItems) = 2
  /\ Len(classified) = 1
  /\ summary.kind = "limited"
  /\ summary.skipped = 1

HasText(x) == x \notin {Absent, None, Empty}

\* C6 as stated: when the remote call raises or its content does not decode to
\* an object with category and description, the result's category is the
\* item's language label, "Other" when the label is absent or empty, and its
\* description is the item's description, the one placeholder when that is
\* absent or empty.
C6_AsStated ==
  (result # NoResult /\ ~Parsed(reply)) =>
    /\ result.category = IF HasText(repo.language) THEN repo.language ELSE Other
    /\ result.description =
         IF HasText(repo.description) THEN repo.description ELSE InterestingRepository

\* The document the rendering wrote.
Doc == IF dry_run THEN previewFile ELSE readmeFile

Shown(line) == IF line.stars = <<>> THEN 0 ELSE line.stars[1]

Position(url) == CHOOSE j \in DOMAIN cache : cache[j].data.url = url

InCategory(category) == {j \in DOMAIN cache : cache[j].data.category = category}

\* C9: the sections and the contents lines are in ascending lexicographic
\* order of category, one per category; a section lists exactly the entries of
\* its category, by descending stars, and entries with equal stars in the
\* order in which the mapping holds them.
C9_Sorted ==
  pc = "done" =>
    /\ \A i \in 1 .. (Len(Doc.sections) - 1) :
         StrLess(Doc.sections[i].category, Doc.sections[i + 1].category)
    /\ {Doc.sections[i].category : i \in DOMAIN Doc.sections}
         = {cache[j].data.category : j \in DOMAIN cache}
    /\ [i \in DOMAIN Doc.contents |-> Doc.contents[i].category]
         = [i \in DOMAIN Doc.sections |-> Doc.sections[i].category]
    /\ \A s \in DOMAIN Doc.sections :
         /\ Len(Doc.sections[s].lines) = Cardinality(InCategory(Doc.sections[s].category))
         /\ {Doc.sections[s].lines[i].url : i \in DOMAIN Doc.sections[s].lines}
              = {cache[j].data.url : j \in InCategory(Doc.sections[s].category)}
         /\ \A i, j \in DOMAIN Doc.sections[s].lines :
              i < j =>
                \/ Shown(Doc.sections[s].lines[i]) > Shown(Doc.sections[s].lines[j])
                \/ /\ Shown(Doc.sections[s].lines[i]) = Shown(Doc.sections[s].lines[j])
                   /\ Position(Doc.sections[s].lines[i].url)
                        < Position(Doc.sections[s].lines[j].url)

\* One category holding stars 5, 20, 20, 1 in that order is rendered as the
\* second entry, the third, the first, the fourth.
C9_Witness ==
  /\ pc = "done"
  /\ Len(cache) = 4
  /\ [i \in DOMAIN cache |-> cache[i].data.stars] = <<5, 20, 20, 1>>
  /\ Len(Doc.sections) = 1
  /\ [i \in DOMAIN Doc.sections[1].lines |-> Doc.sections[1].lines[i].url]
       = <<cache[2].data.url, cache[3].data.url, cache[1].data.url, cache[4].data.url>>

\* The anchor of C10 as stated: lower case, spaces removed, "/" and "&" removed.
RECURSIVE AnchorAsStated(_)
AnchorAsStated(label) ==
  IF label = <<>> THEN <<>>
  ELSE (IF Head(label) \in {" ", "/", "&"} THEN <<>> ELSE <<LowerChar(Head(label))>>)
         \o AnchorAsStated(Tail(label))

\* The anchor of C10 as amended: lower case, each space turned into a hyphen,
\* "/" and "&" removed.
RECURSIVE AnchorAsAmended(_)
AnchorAsAmended(label) ==
  IF label = <<>> THEN <<>>
  ELSE (IF Head(label) \in {"/", "&"} THEN <<>>
        ELSE IF Head(label) = " " THEN <<"-">>
        ELSE <<LowerChar(Head(label))>>)
         \o AnchorAsAmended(Tail(label))

C7_PreviewWritesNothing ==
  (dry_run /\ pc # "idle") =>
    /\ cacheFile = start[1]
    /\ readmeFile = start[2]
    /\ IF pc = "done" /\ exit_code = 0
       THEN previewFile = generate_readme(cache, now)
       ELSE previewFile = start[3]

\* A preview run over a stored mapping ended well after classifying one
\* identifier and refreshing the count of another.
C7_Witness ==
  /\ dry_run
  /\ pc = "done"
  /\ exit_code = 0
  /\ start[1] # <<>>
  /\ classified # <<>>
  /\ updated_count > 0
  /\ cache # cacheFile
  /\ previewFile # start[3]

\* C8: a run reads .cache once, before it fetches, and writes it at most once,
\* after the fetch has ended without a failed page and every fetched item went
\* through the loop; a run in which a page request fails, or that is
\* interrupted before the save, ends with status 1, .cache as it was when the
\* run started and neither document written.
C8_SingleSavePoint ==
  /\ cacheReads <= 1
  /\ cacheWrites <= 1
  /\ pc = "load" => (cacheReads = 0 /\ stars = <<>> /\ page = 0)
  /\ pc \in {"fetch", "process", "save", "render"} => cacheReads = 1
  /\ (cacheWrites = 0 /\ pc # "idle") => cacheFile = start[1]
  /\ cacheWrites = 1 =>
       /\ pc \in {"render", "done"}
       /\ ~bad_status
       /\ (pc = "render" \/ exit_code = 0) => idx = Len(stars) + 1
  /\ bad_status => (pc = "done" /\ exit_code = 1 /\ cacheWrites = 0)
  /\ (pc = "done" /\ exit_code = 1) => (readmeFile = start[2] /\ previewFile = start[3])

\* A normal run over a stored mapping failed on its second page.
C8_Witness ==
  /\ pc = "done"
  /\ exit_code = 1
  /\ bad_status
  /\ ~dry_run
  /\ page = 2
  /\ start[1] # <<>>
  /\ cacheFile = start[1]

====
